---- MODULE Spec2Model ----
(***************************************************************************)
(* A model of the OSC codec of blenderOSC (example/scripts/OSCcodec.py,    *)
(* with the blob reader of examples/scripts/osc.py).                       *)
(*                                                                         *)
(* Bytes are naturals 0..255 and byte strings are sequences of them.  A    *)
(* Python str is a sequence of code points; Latin-1 maps the code points   *)
(* 0..255 to the byte of the same number and rejects every other one.      *)
(* Python values are records of one shape (fields k, c, sg, n, m, l), so   *)
(* that values of different kinds can always be compared.                  *)
(***************************************************************************)
EXTENDS Integers, Sequences, FiniteSets, TLC

(***************************************************************************)
(* Python values.                                                          *)
(*   k  kind: "int", "float", "str", "bytes", "none", "list", "tuple",     *)
(*      and the classes "OSCMessage" and "OSCBundle"                       *)
(*   c  class of a float: "zero", "fin", "inf", "nan"; else ""             *)
(*   sg sign bit of a float                                                *)
(*   n  the integer of an int; the binary exponent of a finite float       *)
(*   m  code points of a str; bytes of a bytes; fraction bits of a float   *)
(*   l  elements of a list or a tuple                                      *)
(* An OSCMessage or OSCBundle passed as a value has its payload in m and   *)
(* its address, typetags and timetag in l.                                 *)
(* A finite non-zero float is (-1)^sg * 1.m * 2^n with m a sequence of     *)
(* bits that does not end in 0 (at most 52 of them).                       *)
(***************************************************************************)
Val(k, c, sg, n, m, l) == [k |-> k, c |-> c, sg |-> sg, n |-> n, m |-> m, l |-> l]
IntV(n)    == Val("int", "", 0, n, <<>>, <<>>)
StrV(s)    == Val("str", "", 0, 0, s, <<>>)
BytesV(b)  == Val("bytes", "", 0, 0, b, <<>>)
ListV(l)   == Val("list", "", 0, 0, <<>>, l)
TupleV(l)  == Val("tuple", "", 0, 0, <<>>, l)
NoneV      == Val("none", "", 0, 0, <<>>, <<>>)
FloatV(sg, e, bits) == Val("float", "fin", sg, e, bits, <<>>)
FloatZero(sg) == Val("float", "zero", sg, 0, <<>>, <<>>)
FloatInf(sg)  == Val("float", "inf", sg, 0, <<>>, <<>>)
FloatNaN      == Val("float", "nan", 0, 0, <<>>, <<>>)

Min(a, b) == IF a < b THEN a ELSE b
Max(a, b) == IF a > b THEN a ELSE b

\* n repetitions of x
Rep(x, n) == [i \in 1..n |-> x]

(***************************************************************************)
(* Python slicing s[a:b] and s[a:]: a negative index counts from the end   *)
(* and every index is clamped to 0..len(s).                                *)
(***************************************************************************)
PyIdx(i, n) == IF i < 0 THEN Max(i + n, 0) ELSE Min(i, n)
Slice(s, a, b) ==
    LET lo == PyIdx(a, Len(s))
        hi == PyIdx(b, Len(s))
    IN  IF hi <= lo THEN <<>> ELSE SubSeq(s, lo + 1, hi)
From(s, a) == Slice(s, a, Len(s))

\* bytes.find(b'\0'): index of the first NUL byte, -1 when there is none
Find0(data) ==
    IF \E i \in 1..Len(data) : data[i] = 0
    THEN (CHOOSE i \in 1..Len(data) : data[i] = 0 /\ \A j \in 1..(i-1) : data[j] # 0) - 1
    ELSE -1

\* int(math.ceil(x / 4.0) * 4) for an integer x of either sign: the least
\* multiple of 4 that is >= x (written so that no step leaves 32 bits)
Ceil4(x) == x + ((4 - (x % 4)) % 4)

\* str.encode('latin-1') succeeds exactly on code points 0..255
IsLatin1(s) == \A i \in 1..Len(s) : s[i] \in 0..255

\* struct.pack(">%ds" % n, b): b cut or NUL-padded to n bytes
PackS(n, b) == [i \in 1..n |-> IF i <= Len(b) THEN b[i] ELSE 0]

(***************************************************************************)
(* struct.pack(">i", n) and struct.unpack(">i", b): big-endian two's       *)
(* complement, 32 bits.                                                    *)
(***************************************************************************)
PackInt(n) ==
    LET n1 == n \div 256
        n2 == n1 \div 256
        n3 == n2 \div 256
    IN  <<n3 % 256, n2 % 256, n1 % 256, n % 256>>
UnpackInt(b) ==
    (IF b[1] >= 128 THEN b[1] - 256 ELSE b[1]) * 16777216
        + b[2] * 65536 + b[3] * 256 + b[4]

\* Results of the encoders: the bytes, or the exception raised
EncOk(b)   == [ok |-> TRUE,  err |-> "",  tag |-> 0, b |-> b]
EncErr(e)  == [ok |-> FALSE, err |-> e,   tag |-> 0, b |-> <<>>]
TagOk(t, b) == [ok |-> TRUE, err |-> "",  tag |-> t, b |-> b]

\* Results of the readers: (value, rest), or the exception raised
RdOk(v, rest) == [ok |-> TRUE,  err |-> "", v |-> v, rest |-> rest]
RdErr(e)      == [ok |-> FALSE, err |-> e,  v |-> NoneV, rest |-> <<>>]

\* OSCString with the length rounded down instead of up
OSCString_floor(next) ==
    IF next.k \notin {"str", "bytes", "list", "tuple"} THEN EncErr("TypeError")
    ELSE IF next.k # "str" THEN EncErr("AttributeError")
    ELSE IF ~IsLatin1(next.m) THEN EncErr("UnicodeEncodeError")
    ELSE EncOk(PackS(((Len(next.m) + 1) \div 4) * 4, next.m))

\* OSCString without the byte for the terminator
OSCString_unterminated(next) ==
    IF next.k \notin {"str", "bytes", "list", "tuple"} THEN EncErr("TypeError")
    ELSE IF next.k # "str" THEN EncErr("AttributeError")
    ELSE IF ~IsLatin1(next.m) THEN EncErr("UnicodeEncodeError")
    ELSE EncOk(PackS(Ceil4(Len(next.m)), next.m))

(***************************************************************************)
(* OSCString: len(next) needs a sized value, encode('latin-1') a str of    *)
(* Latin-1 code points; the result has ceil((len+1)/4)*4 bytes.            *)
(***************************************************************************)
OSCString(next) ==
    IF next.k \notin {"str", "bytes", "list", "tuple"} THEN EncErr("TypeError")
    ELSE IF next.k # "str" THEN EncErr("AttributeError")
    ELSE IF ~IsLatin1(next.m) THEN EncErr("UnicodeEncodeError")
    ELSE EncOk(PackS(Ceil4(Len(next.m) + 1), next.m))

\* _readString: never raises; without a NUL, find() is -1 and the code
\* returns data[0:-1] as the string and the whole of data as the rest
_readString(data) ==
    LET length   == Find0(data)
        nextData == Ceil4(length + 1)
    IN  RdOk(StrV(Slice(data, 0, length)), From(data, nextData))

\* _readInt: with fewer than 4 bytes it returns 0 and the data unread
_readInt(data) ==
    IF Len(data) < 4 THEN RdOk(IntV(0), data)
    ELSE RdOk(IntV(UnpackInt(Slice(data, 0, 4))), From(data, 4))

(***************************************************************************)
(* Bit strings (most significant bit first) for the IEEE-754 encodings.    *)
(***************************************************************************)
RECURSIVE NatOfBits(_)
NatOfBits(bits) ==
    IF Len(bits) = 0 THEN 0
    ELSE 2 * NatOfBits(SubSeq(bits, 1, Len(bits) - 1)) + bits[Len(bits)]

RECURSIVE BitsOfNat(_, _)
BitsOfNat(n, w) ==
    IF w = 0 THEN <<>> ELSE Append(BitsOfNat(n \div 2, w - 1), n % 2)

\* binary digits of n >= 1, without leading zeros
RECURSIVE BinDigits(_)
BinDigits(n) == IF n = 0 THEN <<>> ELSE Append(BinDigits(n \div 2), n % 2)

BytesOfBits(bits) ==
    [i \in 1..(Len(bits) \div 8) |-> NatOfBits(SubSeq(bits, 8 * i - 7, 8 * i))]

BitsOfBytes(b) == [i \in 1..(8 * Len(b)) |-> (BitsOfNat(b[(i + 7) \div 8], 8))[((i - 1) % 8) + 1]]

\* bits cut or zero-padded on the right to w bits
PadBits(bits, w) == [i \in 1..w |-> IF i <= Len(bits) THEN bits[i] ELSE 0]

RECURSIVE StripZeros(_)
StripZeros(bits) ==
    IF Len(bits) = 0 \/ bits[Len(bits)] = 1 THEN bits
    ELSE StripZeros(SubSeq(bits, 1, Len(bits) - 1))

AnyOne(bits) == \E i \in 1..Len(bits) : bits[i] = 1
FirstOne(bits) == CHOOSE i \in 1..Len(bits) : bits[i] = 1 /\ \A j \in 1..(i-1) : bits[j] = 0

(***************************************************************************)
(* struct.pack(">d", x) and struct.unpack(">d", b): the binary64 pattern   *)
(* of the float, sign, 11 exponent bits (bias 1023), 52 fraction bits.     *)
(***************************************************************************)
PackDouble(x) ==
    IF x.c = "zero" THEN BytesOfBits(<<x.sg>> \o Rep(0, 63))
    ELSE IF x.c = "inf" THEN BytesOfBits(<<x.sg>> \o Rep(1, 11) \o Rep(0, 52))
    ELSE IF x.c = "nan" THEN BytesOfBits(<<0>> \o Rep(1, 12) \o Rep(0, 51))
    ELSE IF x.n >= -1022
         THEN BytesOfBits(<<x.sg>> \o BitsOfNat(x.n + 1023, 11) \o PadBits(x.m, 52))
         ELSE BytesOfBits(<<x.sg>> \o Rep(0, 11)
                          \o PadBits(Rep(0, -1023 - x.n) \o <<1>> \o x.m, 52))

\* the float of a sign, an exponent field and a fraction field
FloatOfFields(sg, expfield, frac, emax, bias) ==
    IF expfield = emax THEN (IF AnyOne(frac) THEN FloatNaN ELSE FloatInf(sg))
    ELSE IF expfield = 0
         THEN IF ~AnyOne(frac) THEN FloatZero(sg)
              ELSE LET p == FirstOne(frac)
                   IN  FloatV(sg, 1 - bias - p, StripZeros(SubSeq(frac, p + 1, Len(frac))))
         ELSE FloatV(sg, expfield - bias, StripZeros(frac))

UnpackDouble(b) ==
    LET bits == BitsOfBytes(b)
    IN  FloatOfFields(bits[1], NatOfBits(SubSeq(bits, 2, 12)), SubSeq(bits, 13, 64), 2047, 1023)

(***************************************************************************)
(* struct.pack(">f", x): the double is rounded to binary32 (to nearest,    *)
(* ties to even); a finite double that rounds to infinity raises           *)
(* OverflowError.  struct.unpack(">f", b) widens exactly.                  *)
(***************************************************************************)
PackFloat(x) ==
    IF x.c = "zero" THEN EncOk(BytesOfBits(<<x.sg>> \o Rep(0, 31)))
    ELSE IF x.c = "inf" THEN EncOk(BytesOfBits(<<x.sg>> \o Rep(1, 8) \o Rep(0, 23)))
    ELSE IF x.c = "nan" THEN EncOk(BytesOfBits(<<0>> \o Rep(1, 9) \o Rep(0, 22)))
    ELSE IF x.n > 127 THEN EncErr("OverflowError")
    ELSE LET full  == IF x.n >= -126 THEN x.m
                      ELSE IF x.n < -152 THEN Rep(0, 25) \o <<1>>
                      ELSE Rep(0, -127 - x.n) \o <<1>> \o x.m
             field == IF x.n >= -126 THEN x.n + 127 ELSE 0
             kept  == field * 8388608 + NatOfBits(PadBits(full, 23))
             guard == Len(full) >= 24 /\ full[24] = 1
             stick == AnyOne(SubSeq(full, 25, Len(full)))
             up    == guard /\ (stick \/ kept % 2 = 1)
             word  == IF up THEN kept + 1 ELSE kept
         IN  IF word >= 255 * 8388608 THEN EncErr("OverflowError")
             ELSE EncOk(BytesOfBits(<<x.sg>> \o BitsOfNat(word, 31)))

UnpackFloat(b) ==
    LET bits == BitsOfBytes(b)
    IN  FloatOfFields(bits[1], NatOfBits(SubSeq(bits, 2, 9)), SubSeq(bits, 10, 32), 255, 127)

(***************************************************************************)
(* Python's int(x) and float(x).  An int outside the 32-bit range is kept  *)
(* as class "big" with its binary digits in m.  Of the text forms that     *)
(* Python parses, the model knows the plain decimal digit strings (of at   *)
(* most 9 digits); every text drawn as an argument is either one of those  *)
(* or holds no digit at all and is not an 'inf' or 'nan' word, so that it  *)
(* is a ValueError.                                                        *)
(***************************************************************************)
BigV(sg, digits) == Val("int", "big", sg, 0, digits, <<>>)

IsDigits(s) == Len(s) \in 1..9 /\ \A i \in 1..Len(s) : s[i] \in 48..57

RECURSIVE DigitsValue(_)
DigitsValue(s) ==
    IF Len(s) = 0 THEN 0
    ELSE 10 * DigitsValue(SubSeq(s, 1, Len(s) - 1)) + (s[Len(s)] - 48)

IntToFloat(x) ==
    IF x.c = "big" THEN FloatV(x.sg, Len(x.m) - 1, StripZeros(Tail(x.m)))
    ELSE IF x.n = 0 THEN FloatZero(0)
    ELSE IF x.n = -2147483647 - 1 THEN FloatV(1, 31, <<>>)
    ELSE LET d == BinDigits(IF x.n < 0 THEN -x.n ELSE x.n)
         IN  FloatV(IF x.n < 0 THEN 1 ELSE 0, Len(d) - 1, StripZeros(Tail(d)))

\* the integer part of a finite float, as binary digits without leading zeros
WholeBits(x) == IF x.n < 0 THEN <<>> ELSE <<1>> \o PadBits(x.m, x.n)
\* the fractional part of a finite float, as the bits after the binary point
FractBits(x) ==
    IF x.n < 0 THEN Rep(0, -x.n - 1) \o <<1>> \o x.m
    ELSE SubSeq(x.m, x.n + 1, Len(x.m))

FloatToInt(x) ==
    LET d == WholeBits(x)
    IN  IF Len(d) <= 31 THEN IntV(IF x.sg = 1 THEN -NatOfBits(d) ELSE NatOfBits(d))
        ELSE IF x.sg = 1 /\ Len(d) = 32 /\ ~AnyOne(Tail(d)) THEN IntV(-2147483647 - 1)
        ELSE BigV(x.sg, d)

PyFloat(next) ==
    IF next.k = "float" THEN RdOk(next, <<>>)
    ELSE IF next.k = "int" THEN RdOk(IntToFloat(next), <<>>)
    ELSE IF next.k \in {"str", "bytes"}
         THEN IF IsDigits(next.m) THEN RdOk(IntToFloat(IntV(DigitsValue(next.m))), <<>>)
              ELSE RdErr("ValueError")
    ELSE RdErr("TypeError")

PyInt(next) ==
    IF next.k = "int" THEN RdOk(next, <<>>)
    ELSE IF next.k = "float"
         THEN IF next.c = "zero" THEN RdOk(IntV(0), <<>>)
              ELSE IF next.c = "inf" THEN RdErr("OverflowError")
              ELSE IF next.c = "nan" THEN RdErr("ValueError")
              ELSE RdOk(FloatToInt(next), <<>>)
    ELSE IF next.k \in {"str", "bytes"}
         THEN IF IsDigits(next.m) THEN RdOk(IntV(DigitsValue(next.m)), <<>>)
              ELSE RdErr("ValueError")
    ELSE RdErr("TypeError")

\* struct.pack(">i", n) of a Python int: struct.error outside 32 bits
StructPackInt(x) == IF x.c = "big" THEN EncErr("struct.error") ELSE EncOk(PackInt(x.n))

\* OSCBlob without the padding of the payload
OSCBlob_unpadded(next) ==
    IF next.k = "str" /\ ~IsLatin1(next.m) THEN EncErr("UnicodeEncodeError")
    ELSE IF next.k \in {"str", "bytes"}
         THEN EncOk(PackInt(Len(next.m)) \o next.m)
    ELSE EncOk(<<>>)

(***************************************************************************)
(* OSCBlob: the prefix written is the padded length, not len(next); a      *)
(* value that is neither str nor bytes gives the empty byte string.        *)
(***************************************************************************)
OSCBlob(next) ==
    IF next.k = "str" /\ ~IsLatin1(next.m) THEN EncErr("UnicodeEncodeError")
    ELSE IF next.k \in {"str", "bytes"}
         THEN LET OSCblobLength == Ceil4(Len(next.m))
              IN  EncOk(PackInt(OSCblobLength) \o PackS(OSCblobLength, next.m))
    ELSE EncOk(<<>>)

\* a failed numeric conversion falls back to the string encoding only on
\* ValueError; every other exception leaves OSCArgument
NumericOrString(conv, packed, tag, next) ==
    IF conv.ok THEN (IF packed.ok THEN TagOk(tag, packed.b) ELSE packed)
    ELSE IF conv.err = "ValueError"
         THEN LET st == OSCString(next) IN IF st.ok THEN TagOk(115, st.b) ELSE st
    ELSE EncErr(conv.err)

\* OSCArgument: typehint 0 is None; the tags are the code points of
\* 'f' 102, 'i' 105, 's' 115, 'd' 100
OSCArgument(next, typehint) ==
    IF typehint = 0
    THEN IF next.k = "float" THEN LET p == PackFloat(next)
                                  IN  IF p.ok THEN TagOk(102, p.b) ELSE p
         ELSE IF next.k = "int" THEN LET p == StructPackInt(next)
                                     IN  IF p.ok THEN TagOk(105, p.b) ELSE p
         ELSE LET st == OSCString(next) IN IF st.ok THEN TagOk(115, st.b) ELSE st
    ELSE IF typehint = 100
         THEN LET c == PyFloat(next)
              IN  NumericOrString(c, IF c.ok THEN EncOk(PackDouble(c.v)) ELSE c, 100, next)
    ELSE IF typehint = 102
         THEN LET c == PyFloat(next)
              IN  NumericOrString(c, IF c.ok THEN PackFloat(c.v) ELSE c, 102, next)
    ELSE IF typehint = 105
         THEN LET c == PyInt(next)
              IN  NumericOrString(c, IF c.ok THEN StructPackInt(c.v) ELSE c, 105, next)
    ELSE LET st == OSCString(next) IN IF st.ok THEN TagOk(115, st.b) ELSE st

(***************************************************************************)
(* OSCTimeTag.  NTP_epoch is timegm((1900,1,1,0,0,0)) = -2208988800; the   *)
(* seconds word is int(secs - NTP_epoch), computed here on bytes because   *)
(* it does not fit a signed 32-bit integer.                                *)
(***************************************************************************)
NTP_epoch_neg_bytes == <<131, 170, 126, 128>>

\* the sum of two 4-byte big-endian words, as 4 bytes and the carry out
AddWords(a, b) ==
    LET s4 == a[4] + b[4]
        s3 == a[3] + b[3] + s4 \div 256
        s2 == a[2] + b[2] + s3 \div 256
        s1 == a[1] + b[1] + s2 \div 256
    IN  [carry |-> s1 \div 256, b |-> <<s1 % 256, s2 % 256, s3 % 256, s4 % 256>>]

\* OSCTimeTag with the words (0, 0) for a time that is not positive
OSCTimeTag_zeros(time) ==
    IF time.k \notin {"int", "float"} THEN EncErr("TypeError")
    ELSE LET x == IF time.k = "int" THEN IntToFloat(time) ELSE time
         IN  IF x.c \in {"zero", "nan"} \/ x.sg = 1
             THEN EncOk(<<0, 0, 0, 0, 0, 0, 0, 0>>)
             ELSE IF x.c = "inf" THEN EncErr("OverflowError")
             ELSE LET w == WholeBits(x)
                      high == AddWords(BytesOfBits(Rep(0, 32 - Len(w)) \o w),
                                       NTP_epoch_neg_bytes)
                  IN  IF Len(w) > 32 \/ high.carry > 0 THEN EncErr("struct.error")
                      ELSE EncOk(high.b \o BytesOfBits(PadBits(FractBits(x), 32)))

OSCTimeTag(time) ==
    IF time.k \notin {"int", "float"} THEN EncErr("TypeError")
    ELSE LET x == IF time.k = "int" THEN IntToFloat(time) ELSE time
         IN  IF x.c \in {"zero", "nan"} \/ x.sg = 1
             THEN EncOk(<<0, 0, 0, 0, 0, 0, 0, 1>>)
             ELSE IF x.c = "inf" THEN EncErr("OverflowError")
             ELSE LET w == WholeBits(x)
                      high == AddWords(BytesOfBits(Rep(0, 32 - Len(w)) \o w),
                                       NTP_epoch_neg_bytes)
                  IN  IF Len(w) > 32 \/ high.carry > 0 THEN EncErr("struct.error")
                      ELSE EncOk(high.b \o BytesOfBits(PadBits(FractBits(x), 32)))

\* a slice index at or beyond len(data) is the index len(data); capping it
\* there keeps the index arithmetic within 32 bits
Cap(length, data) == Min(length, Len(data))

\* _readBlob: unpack raises on fewer than 4 bytes; the payload slice is
\* taken without comparing length with the bytes that are there
_readBlob(data) ==
    IF Len(data) < 4 THEN RdErr("struct.error")
    ELSE LET length   == Cap(UnpackInt(Slice(data, 0, 4)), data)
             nextData == Ceil4(length) + 4
         IN  RdOk(BytesV(Slice(data, 4, length + 4)), From(data, nextData))

\* a + b + c of two bit strings of one length, as the carry and the sum
\* bits; the strings are added 24 bits at a time
RECURSIVE AddBits(_, _, _)
AddBits(a, b, c) ==
    IF Len(a) = 0 THEN <<c>>
    ELSE LET k == Min(Len(a), 24)
             s == NatOfBits(SubSeq(a, Len(a) - k + 1, Len(a)))
                    + NatOfBits(SubSeq(b, Len(b) - k + 1, Len(b))) + c
         IN  AddBits(SubSeq(a, 1, Len(a) - k), SubSeq(b, 1, Len(b) - k), s \div (2 ^ k))
                \o BitsOfNat(s % (2 ^ k), k)
NotBits(a) == [i \in 1..Len(a) |-> 1 - a[i]]

\* the double nearest (ties to even) to the number with sign sg, integer
\* bits whole and fraction bits fract
FloatOfFixed(sg, whole, fract) ==
    LET mag == whole \o fract
    IN  IF ~AnyOne(mag) THEN FloatZero(0)
        ELSE LET p    == FirstOne(mag)
                 e    == Len(whole) - p
                 frac == SubSeq(mag, p + 1, Len(mag))
             IN  IF Len(frac) <= 52 THEN FloatV(sg, e, StripZeros(frac))
                 ELSE LET kept == SubSeq(frac, 1, 52)
                          up   == frac[53] = 1
                                    /\ (AnyOne(SubSeq(frac, 54, Len(frac))) \/ kept[52] = 1)
                          sum  == AddBits(<<1>> \o kept, Rep(0, 53), 1)
                      IN  IF ~up THEN FloatV(sg, e, StripZeros(kept))
                          ELSE IF sum[1] = 1 THEN FloatV(sg, e + 1, <<>>)
                          ELSE FloatV(sg, e, StripZeros(SubSeq(sum, 3, 54)))

\* int(NTP_epoch + high) + float(low / NTP_units_per_second), for the
\* 32-bit words high and low given as bytes
NtpToFloat(high, low) ==
    LET H    == BitsOfBytes(high)
        L    == BitsOfBytes(low)
        E    == BitsOfBytes(NTP_epoch_neg_bytes)
        diff == AddBits(H, NotBits(E), 1)
    IN  IF diff[1] = 1 THEN FloatOfFixed(0, Tail(diff), L)
        ELSE LET S == Tail(AddBits(E, NotBits(H), 1))
             IN  IF ~AnyOne(L) THEN FloatOfFixed(1, S, L)
                 ELSE FloatOfFixed(1, Tail(AddBits(S, Rep(1, 32), 0)),
                                   Tail(AddBits(NotBits(L), Rep(0, 32), 1)))

\* _readTimeTag: (0, 0) and (0, 1) give 0.0; any other pair gives the float
\* int(NTP_epoch + high) + low / 2^32
_readTimeTag(data) ==
    IF Len(data) < 8 THEN RdErr("struct.error")
    ELSE LET high == Slice(data, 0, 4)
             low  == Slice(data, 4, 8)
         IN  IF high = <<0, 0, 0, 0>> /\ low \in {<<0, 0, 0, 0>>, <<0, 0, 0, 1>>}
             THEN RdOk(FloatZero(0), From(data, 8))
             ELSE RdOk(NtpToFloat(high, low), From(data, 8))

\* _readFloat and _readDouble: on a short buffer the value is the int 0
_readFloat(data) ==
    IF Len(data) < 4 THEN RdOk(IntV(0), data)
    ELSE RdOk(UnpackFloat(Slice(data, 0, 4)), From(data, 4))

_readDouble(data) ==
    IF Len(data) < 8 THEN RdOk(IntV(0), data)
    ELSE RdOk(UnpackDouble(Slice(data, 0, 8)), From(data, 8))

(***************************************************************************)
(* osc.py: _ceilToMultipleOfFour, BlobArgument.toBinary and                *)
(* BlobArgument.fromBinary.                                                *)
(***************************************************************************)
_ceilToMultipleOfFour(num) == num + (4 - (num % 4))

\* osc.py is written for Python 2 and is also loaded by Python 3
Interpreters == {2, 3}

\* BlobArgument.toBinary on a text value: struct.pack(">i%ds" % length, sz,
\* str(self.value)).  Under Python 2 str() is the byte string of the value
\* (UnicodeEncodeError beyond Latin-1 is that of a unicode value); under
\* Python 3 it is a str, which the format 's' refuses
BlobArgument_toBinary(value, python) ==
    IF python = 3 THEN EncErr("struct.error")
    ELSE IF ~IsLatin1(value.m) THEN EncErr("UnicodeEncodeError")
    ELSE EncOk(PackInt(Len(value.m))
                 \o PackS(_ceilToMultipleOfFour(Len(value.m)), value.m))

BlobArgument_fromBinary(data) ==
    IF Len(data) < 4 THEN RdErr("OscError")
    ELSE LET length == UnpackInt(Slice(data, 0, 4))
             index_of_leftover == _ceilToMultipleOfFour(length) + 4
         IN  IF Len(data) + 4 < length THEN RdErr("OscError")
             ELSE RdOk(BytesV(Slice(data, 4, length + 4)), From(data, index_of_leftover))

(***************************************************************************)
(* decodeOSC.  The result is the list returned (st = "ok"), the exception  *)
(* raised (st = "raise"), or st = "hang" when the bundle loop is entered   *)
(* with a remainder that an iteration leaves unchanged, so that the loop   *)
(* never ends.                                                             *)
(***************************************************************************)
DecOk(val)  == [st |-> "ok",    err |-> "", val |-> val]
DecErr(e)   == [st |-> "raise", err |-> e,  val |-> <<>>]
DecHang     == [st |-> "hang",  err |-> "", val |-> <<>>]

Bundle == <<35, 98, 117, 110, 100, 108, 101>>
StartsWithComma(s) == Len(s) > 0 /\ s[1] = 44

\* table: the reader of a type tag, i f s b d t
TableTags == {105, 102, 115, 98, 100, 116}
table(tag, data) ==
    CASE tag = 105 -> _readInt(data)
      [] tag = 102 -> _readFloat(data)
      [] tag = 115 -> _readString(data)
      [] tag = 98  -> _readBlob(data)
      [] tag = 100 -> _readDouble(data)
      [] tag = 116 -> _readTimeTag(data)

\* the tag loop with an unknown tag skipped instead of looked up
RECURSIVE TagLoop_skip(_, _, _)
TagLoop_skip(tags, rest, decoded) ==
    IF Len(tags) = 0 THEN DecOk(decoded)
    ELSE IF tags[1] \notin TableTags THEN TagLoop_skip(Tail(tags), rest, decoded)
    ELSE LET r == table(tags[1], rest)
         IN  IF ~r.ok THEN DecErr(r.err)
             ELSE TagLoop_skip(Tail(tags), r.rest, Append(decoded, r.v))

\* for tag in typetags[1:]: value, rest = table[tag](rest)
RECURSIVE TagLoop(_, _, _)
TagLoop(tags, rest, decoded) ==
    IF Len(tags) = 0 THEN DecOk(decoded)
    ELSE IF tags[1] \notin TableTags THEN DecErr("KeyError")
    ELSE LET r == table(tags[1], rest)
         IN  IF ~r.ok THEN DecErr(r.err)
             ELSE TagLoop(Tail(tags), r.rest, Append(decoded, r.v))

\* the message branch without the raise: what was decoded is returned
DecodeMessage_lenient(address, typetags0, rest) ==
    LET second == IF Len(typetags0) = 0 THEN _readString(rest)
                  ELSE RdOk(StrV(typetags0), rest)
    IN  IF StartsWithComma(second.v.m)
        THEN TagLoop(Tail(second.v.m), second.rest, <<StrV(address), second.v>>)
        ELSE DecOk(<<StrV(address), second.v>>)

\* the branch "elif len(rest)>0": the type-tag string is read unless the
\* first string was one; raise OSCError(...) names a class the module does
\* not define, so what is raised there is a NameError
DecodeMessage(address, typetags0, rest) ==
    LET second == IF Len(typetags0) = 0 THEN _readString(rest)
                  ELSE RdOk(StrV(typetags0), rest)
    IN  IF StartsWithComma(second.v.m)
        THEN TagLoop(Tail(second.v.m), second.rest, <<StrV(address), second.v>>)
        ELSE DecErr("NameError")

RECURSIVE decodeOSC(_)
RECURSIVE BundleLoop(_, _)
\* while len(rest)>0: length, rest = _readInt(rest); ...; rest = rest[length:]
BundleLoop(rest, decoded) ==
    IF Len(rest) = 0 THEN DecOk(decoded)
    ELSE LET r      == _readInt(rest)
             length == r.v.n
             sub    == decodeOSC(Slice(r.rest, 0, length))
             rest2  == From(r.rest, length)
         IN  IF sub.st # "ok" THEN sub
             ELSE IF rest2 = rest THEN DecHang
             ELSE BundleLoop(rest2, Append(decoded, ListV(sub.val)))

decodeOSC(data) ==
    LET first     == _readString(data)
        quirk     == StartsWithComma(first.v.m)
        address   == IF quirk THEN <<>> ELSE first.v.m
        typetags0 == IF quirk THEN first.v.m ELSE <<>>
        rest      == first.rest
    IN  IF address = Bundle
        THEN LET t == _readTimeTag(rest)
             IN  IF ~t.ok THEN DecErr(t.err)
                 ELSE BundleLoop(t.rest, <<StrV(address), t.v>>)
        ELSE IF Len(rest) > 0 THEN DecodeMessage(address, typetags0, rest)
        ELSE DecOk(<<>>)

(***************************************************************************)
(* OSCMessage.  The object is its three fields; the operations below give  *)
(* the fields after the call together with the exception the call raised   *)
(* ("" when it returned).                                                  *)
(***************************************************************************)
Msg(a, t, m) == [address |-> a, typetags |-> t, message |-> m]
Outcome(msg, err) == [msg |-> msg, err |-> err]

\* OSCMessage.clear(address) with clearData(): typetags "," and no payload
clear(addr) == Msg(addr, <<44>>, <<>>)

\* OSCMessage.append: a list or tuple is appended element by element with
\* the same typehint, and an exception leaves the elements appended before it in
\* place; typehint 98 'b' and 116 't' go to OSCBlob and OSCTimeTag
RECURSIVE OSCMessage_append(_, _, _)
RECURSIVE AppendEach(_, _, _)
AppendEach(msg, args, typehint) ==
    IF Len(args) = 0 THEN Outcome(msg, "")
    ELSE LET o == OSCMessage_append(msg, args[1], typehint)
         IN  IF o.err # "" THEN o ELSE AppendEach(o.msg, Tail(args), typehint)

OSCMessage_append(msg, argument, typehint) ==
    IF argument.k \in {"OSCMessage", "OSCBundle"} THEN Outcome(msg, "TypeError")
    ELSE IF argument.k \in {"list", "tuple"} THEN AppendEach(msg, argument.l, typehint)
    ELSE LET e == IF typehint = 98 THEN
                     LET b == OSCBlob(argument) IN IF b.ok THEN TagOk(98, b.b) ELSE b
                  ELSE IF typehint = 116 THEN
                     LET b == OSCTimeTag(argument) IN IF b.ok THEN TagOk(116, b.b) ELSE b
                  ELSE OSCArgument(argument, typehint)
         IN  IF ~e.ok THEN Outcome(msg, e.err)
             ELSE Outcome(Msg(msg.address, Append(msg.typetags, e.tag),
                              msg.message \o e.b), "")

\* getBinary with the address written as it is, NUL-terminated
getBinary_unpadded(msg) ==
    LET t == OSCString(StrV(msg.typetags))
    IN  IF ~IsLatin1(msg.address) THEN EncErr("UnicodeEncodeError")
        ELSE IF ~t.ok THEN t ELSE EncOk(msg.address \o <<0>> \o t.b \o msg.message)

\* OSCMessage.getBinary
getBinary(msg) ==
    LET a == OSCString(StrV(msg.address))
        t == OSCString(StrV(msg.typetags))
    IN  IF ~a.ok THEN a ELSE IF ~t.ok THEN t ELSE EncOk(a.b \o t.b \o msg.message)

\* OSCMessage.__len__
len(msg) == Len(msg.typetags) - 1

(***************************************************************************)
(* OSCBundle: an OSCMessage with a timetag.  As a value, an object is its  *)
(* class with its fields.                                                  *)
(***************************************************************************)
ObjV(cls, msg, time) ==
    Val(cls, "", 0, 0, msg.message, <<StrV(msg.address), StrV(msg.typetags), time>>)
MsgOfObj(o) == Msg(o.l[1].m, o.l[2].m, o.m)

\* OSCBundle.getBinary
OSCBundle_getBinary(msg, time) ==
    LET s == OSCString(StrV(Bundle))
        t == OSCTimeTag(time)
    IN  IF ~t.ok THEN t ELSE EncOk(s.b \o t.b \o msg.message)

\* argument.getBinary() of an OSCMessage or OSCBundle
ObjBinary(o) ==
    IF o.k = "OSCBundle" THEN OSCBundle_getBinary(MsgOfObj(o), o.l[3])
    ELSE getBinary(MsgOfObj(o))

\* msg.getBinary() of the OSCMessage that OSCBundle.append creates, after
\* msg.append(argument, typehint) with outcome o
Encapsulated(o) == IF o.err # "" THEN EncErr(o.err) ELSE getBinary(o.msg)

\* the binary of the element that OSCBundle.append adds for argument: the
\* argument's own, or that of a new OSCMessage(self.address) to which the
\* argument was appended
ElementBinary(addr, argument, typehint) ==
    IF argument.k \in {"OSCMessage", "OSCBundle"} THEN ObjBinary(argument)
    ELSE Encapsulated(OSCMessage_append(clear(addr), argument, typehint))

\* the new element put before the others
AddElement_first(msg, e) ==
    IF ~e.ok THEN Outcome(msg, e.err)
    ELSE Outcome(Msg(msg.address, Append(msg.typetags, 98),
                     OSCBlob(BytesV(e.b)).b \o msg.message), "")

\* the length word counting itself
AddElement_counted(msg, e) ==
    IF ~e.ok THEN Outcome(msg, e.err)
    ELSE Outcome(Msg(msg.address, Append(msg.typetags, 98),
                     msg.message \o PackInt(Len(e.b) + 4) \o e.b), "")

\* self.message += binary; self.typetags += 'b', for the element binary e
AddElement(msg, e) ==
    IF ~e.ok THEN Outcome(msg, e.err)
    ELSE Outcome(Msg(msg.address, Append(msg.typetags, 98),
                     msg.message \o OSCBlob(BytesV(e.b)).b), "")

\* OSCBundle.append (an argument that is a dict is not among the arguments
\* drawn)
OSCBundle_append(msg, argument, typehint) ==
    AddElement(msg, ElementBinary(msg.address, argument, typehint))

\* OSCMessage(address, args) and OSCBundle(address, time) with elements appended
OSCMessage(addr, args) == OSCMessage_append(clear(addr), args, 0).msg
RECURSIVE OSCBundle(_, _, _)
OSCBundle(addr, time, elements) ==
    IF Len(elements) = 0 THEN clear(addr)
    ELSE OSCBundle_append(OSCBundle(addr, time, SubSeq(elements, 1, Len(elements) - 1)),
                          elements[Len(elements)], 0).msg

(***************************************************************************)
(* The values, type hints and addresses the callers of the model use.      *)
(***************************************************************************)
MaxCalls == 2

pig     == <<112, 105, 103>>
Pi314   == FloatV(0, 1, <<1,0,0,1, 0,0,0,1, 1,1,1,0, 1,0,1,1, 1,0,0,0, 0,1,0,1, 0,0,0,1,
                          1,1,1,0, 1,0,1,1, 1,0,0,0, 0,1,0,1, 0,0,0,1, 1,1,1,1>>)

Addresses == { <<47, 97, 98>>, <<47, 112, 105, 110, 103>> }

\* append(argument): the type is inferred
InferredArgs ==
    { IntV(6), IntV(-2), IntV(2147483647), StrV(pig), StrV(<<>>), StrV(<<232, 98, 114, 105, 101>>),
      StrV(<<97, 0, 98, 99, 100>>), StrV(<<8364>>), Pi314, NoneV,
      ListV(<<IntV(6), StrV(pig)>>), ListV(<<IntV(6), NoneV>>) }
\* append(argument, typehint) with 'i' 105, 'f' 102, 'd' 100
NumericArgs == { IntV(6), StrV(<<49, 50>>), StrV(pig), FloatV(1, 1, <<0, 1>>), NoneV }
\* append(argument, 'b') and append(argument, 't')
BlobArgs == { BytesV(<<1, 2, 3, 4, 5>>), StrV(pig), IntV(6) }
TimeArgs == { IntV(0), IntV(6), FloatV(0, 0, <<1>>) }

Calls ==
    (InferredArgs \X {0}) \cup (NumericArgs \X {105, 102, 100})
        \cup (BlobArgs \X {98}) \cup (TimeArgs \X {116})
        \cup ({StrV(pig), IntV(6)} \X {115})

(***************************************************************************)
(* The inputs of the codec functions: texts for the encoders and received  *)
(* datagrams for the decoders.  A datagram is an address field, a type-tag *)
(* field and payload words, or a bundle of length-prefixed elements; the   *)
(* receiver may get it with its last bytes cut off.                        *)
(***************************************************************************)
MaxStrLen == 5
MaxPayloadWords == 2
MaxCut == 3

\* all sequences over S of length at most n
RECURSIVE SeqsUpTo(_, _)
SeqsUpTo(S, n) ==
    IF n = 0 THEN {<<>>}
    ELSE LET shorter == SeqsUpTo(S, n - 1)
         IN  shorter \cup {Append(q, x) : q \in shorter, x \in S}

RECURSIVE Flatten(_)
Flatten(ws) == IF Len(ws) = 0 THEN <<>> ELSE ws[1] \o Flatten(Tail(ws))

\* data without its last k bytes
CutOff(data, k) == SubSeq(data, 1, Max(Len(data) - k, 0))

Texts == SeqsUpTo({97, 233}, MaxStrLen) \cup {<<8364>>, <<97, 0, 98>>}

AddrFields == { <<>>, <<47, 97, 98, 0>>, <<47, 112, 105, 110, 103, 0, 0, 0>> }
TagFields ==
    { <<>>, <<44, 0, 0, 0>>, <<44, 105, 0, 0>>, <<44, 102, 0, 0>>, <<44, 100, 0, 0>>,
      <<44, 115, 0, 0>>, <<44, 98, 0, 0>>, <<44, 116, 0, 0>>, <<44, 120, 0, 0>>,
      <<44, 105, 120, 0>>, <<44, 98, 120, 0>>, <<44, 115, 105, 0>>,
      <<112, 105, 103, 0>> }
PayloadWords == { <<0, 0, 0, 4>>, <<0, 0, 0, 8>>, <<112, 105, 103, 0>>, <<64, 73, 15, 208>> }
Payloads == { Flatten(ws) : ws \in SeqsUpTo(PayloadWords, MaxPayloadWords) }

MessageBuffers == { a \o t \o p : a \in AddrFields, t \in TagFields, p \in Payloads }

BundleField == <<35, 98, 117, 110, 100, 108, 101, 0>>
TimeFields == { <<0, 0, 0, 0, 0, 0, 0, 1>>, <<131, 170, 126, 134, 128, 0, 0, 0>> }
Elements ==
    { <<47, 97, 98, 0, 44, 0, 0, 0>>,
      <<47, 97, 98, 0, 44, 105, 0, 0, 0, 0, 0, 6>>,
      <<47, 97, 98, 0, 44, 120, 0, 0>>,
      BundleField \o <<0, 0, 0, 0, 0, 0, 0, 1>>
          \o <<0, 0, 0, 8>> \o <<47, 97, 98, 0, 44, 0, 0, 0>>,
      <<112, 105, 103, 0, 44, 0, 0, 0>>,
      <<35, 98, 117, 110, 0, 0, 0, 0, 44, 0, 0, 0>> }
\* an element behind a length word that is right, too large, too small,
\* zero or negative
Framed == UNION { { PackInt(n) \o e : n \in {Len(e), Len(e) + 4, Len(e) - 4, 0, -4} } :
                  e \in Elements }
BundleBuffers ==
    { BundleField \o t \o f \o g : t \in TimeFields, f \in Framed,
            g \in {<<>>} \cup { PackInt(Len(e)) \o e : e \in Elements } }

Buffers == { CutOff(b, k) : b \in MessageBuffers \cup BundleBuffers, k \in 0..MaxCut }

(***************************************************************************)
(* OSCMessage as a list: values(), tags() and items() read the arguments   *)
(* back from the binary; extend() and the other list operations rebuild    *)
(* the message from a list of (typehint, value) items.  A list of items,   *)
(* like a list of values, is returned as DecOk(list) or is the exception   *)
(* raised.                                                                 *)
(***************************************************************************)
\* decodeOSC(binary)[2:]
ValuesOf(b, d) ==
    IF ~b.ok THEN DecErr(b.err)
    ELSE IF d.st # "ok" THEN d
    ELSE DecOk(From(d.val, 2))
values(msg) == ValuesOf(getBinary(msg), decodeOSC(getBinary(msg).b))

\* typetags.lstrip(',')
RECURSIVE LStripComma(_)
LStripComma(t) == IF Len(t) > 0 /\ t[1] = 44 THEN LStripComma(Tail(t)) ELSE t
tags(msg) == LStripComma(msg.typetags)

\* items(): the pairs (typetags[i], values[i]) for i in range(len(values))
ItemsOf(ts, vs) ==
    IF vs.st # "ok" THEN vs
    ELSE IF Len(vs.val) > Len(ts) THEN DecErr("IndexError")
    ELSE DecOk([i \in 1..Len(vs.val) |-> [hint |-> ts[i], v |-> vs.val[i]]])
items(msg) == ItemsOf(tags(msg), values(msg))

\* a value used as a typehint: None and every other false value count as
\* no typehint (0), a one-character str is its code point, and any other
\* value (-1) is a typehint that equals none of 'b', 't', 'd', 'f', 'i'
Falsy(v) ==
    \/ v.k = "none"
    \/ v.k = "int" /\ v.c = "" /\ v.n = 0
    \/ v.k = "float" /\ v.c = "zero"
    \/ v.k \in {"str", "bytes"} /\ Len(v.m) = 0
    \/ v.k \in {"list", "tuple"} /\ Len(v.l) = 0
HintOf(v) ==
    IF Falsy(v) THEN 0
    ELSE IF v.k = "str" /\ Len(v.m) = 1 /\ v.m[1] > 0 THEN v.m[1]
    ELSE -1

\* an item is (typehint, value); val[:2] of a tuple with fewer than two
\* elements has no value, and item[1] then raises IndexError
NoValue == Val("missing", "", 0, 0, <<>>, <<>>)
Item(hint, v) == [hint |-> hint, v |-> v]
TupleItem(l) ==
    Item(IF Len(l) >= 1 THEN HintOf(l[1]) ELSE 0, IF Len(l) >= 2 THEN l[2] ELSE NoValue)

\* _buildItemList(values, typehint)
_buildItemList(vals, typehint) ==
    IF vals.k \in {"OSCMessage", "OSCBundle"} THEN items(MsgOfObj(vals))
    ELSE IF vals.k = "list"
         THEN DecOk([i \in 1..Len(vals.l) |->
                       IF vals.l[i].k = "tuple" THEN TupleItem(vals.l[i].l)
                       ELSE Item(typehint, vals.l[i])])
    ELSE IF vals.k = "tuple" THEN DecOk(<<TupleItem(vals.l)>>)
    ELSE DecOk(<<Item(typehint, vals)>>)

\* _reencode without clearData(): the items are appended to what is there
RECURSIVE AppendItems(_, _)
\* the rest of the loop after append() left the outcome o
AppendRest(o, its) == IF o.err # "" THEN o ELSE AppendItems(o.msg, its)
AppendItems(msg, its) ==
    IF Len(its) = 0 THEN Outcome(msg, "")
    ELSE IF its[1].v = NoValue THEN Outcome(msg, "IndexError")
    ELSE AppendRest(OSCMessage_append(msg, its[1].v, its[1].hint), Tail(its))

\* _reencode(items): clearData(), then append(item[1], item[0]) for each
\* item; an exception leaves the items before it in the message
_reencode(msg, its) == AppendItems(clear(msg.address), its)

\* extend(values): items = list(self.items()) + self._buildItemList(values)
ExtendWith(msg, own, more) ==
    IF own.st # "ok" THEN Outcome(msg, own.err)
    ELSE IF more.st # "ok" THEN Outcome(msg, more.err)
    ELSE _reencode(msg, own.val \o more.val)
extend(msg, vals) == ExtendWith(msg, items(msg), _buildItemList(vals, 0))

\* copy() that returns self instead of a new object
copy_self(msg) == [same |-> TRUE, msg |-> msg]

\* copy(): a new object of the same class with the fields of msg; same
\* tells whether the object returned is msg itself
copy(msg) == [same |-> FALSE, msg |-> Msg(msg.address, msg.typetags, msg.message)]

\* __add__(values): msg = self.copy(); msg.extend(values); return msg
__add__(msg, vals) ==
    [same |-> copy(msg).same, out |-> extend(copy(msg).msg, vals)]

\* __iadd__(values): self.extend(values); return self
__iadd__(msg, vals) == extend(msg, vals)

(***************************************************************************)
(* The list operations.  A call gives the fields after it, the exception   *)
(* raised ("" when it returned) and the value returned.  Python's list     *)
(* methods are applied to the list of items: insert clamps the index, the  *)
(* others raise IndexError outside -len..len-1.                            *)
(***************************************************************************)
Call(o, ret) == [msg |-> o.msg, err |-> o.err, ret |-> IF o.err = "" THEN ret ELSE NoneV]
Raise(msg, e) == [msg |-> msg, err |-> e, ret |-> NoneV]

InRange(l, i) == -Len(l) <= i /\ i < Len(l)
Pos(l, i) == IF i < 0 THEN i + Len(l) + 1 ELSE i + 1
ListInsert(l, i, x) ==
    SubSeq(l, 1, PyIdx(i, Len(l))) \o <<x>> \o SubSeq(l, PyIdx(i, Len(l)) + 1, Len(l))
ListSet(l, i, x) == [l EXCEPT ![Pos(l, i)] = x]
ListDel(l, i) == SubSeq(l, 1, Pos(l, i) - 1) \o SubSeq(l, Pos(l, i) + 1, Len(l))
ListReverse(l) == [j \in 1..Len(l) |-> l[Len(l) + 1 - j]]

\* for item in reversed(new): items.insert(i, item)
RECURSIVE InsertReversed(_, _, _)
InsertReversed(l, i, new) ==
    IF Len(new) = 0 THEN l
    ELSE InsertReversed(ListInsert(l, i, new[Len(new)]), i, SubSeq(new, 1, Len(new) - 1))

\* insert that puts the new items after the others
InsertInto_end(msg, own, new, i) ==
    IF own.st # "ok" THEN Raise(msg, own.err)
    ELSE IF new.st # "ok" THEN Raise(msg, new.err)
    ELSE Call(_reencode(msg, own.val \o new.val), NoneV)

\* insert(i, val, typehint): the items come from _buildItemList(val), which
\* is not given the typehint
InsertInto(msg, own, new, i) ==
    IF own.st # "ok" THEN Raise(msg, own.err)
    ELSE IF new.st # "ok" THEN Raise(msg, new.err)
    ELSE Call(_reencode(msg, InsertReversed(own.val, i, new.val)), NoneV)
insert(msg, i, val, typehint) ==
    InsertInto(msg, items(msg), _buildItemList(val, 0), i)

\* __setitem__(i, val) for an index i that is not a slice
SetInto(msg, own, new, i) ==
    IF own.st # "ok" THEN Raise(msg, own.err)
    ELSE IF new.st # "ok" THEN Raise(msg, new.err)
    ELSE IF Len(new.val) # 1 THEN Raise(msg, "TypeError")
    ELSE IF ~InRange(own.val, i) THEN Raise(msg, "IndexError")
    ELSE Call(_reencode(msg, ListSet(own.val, i, new.val[1])), NoneV)
__setitem__(msg, i, val) == SetInto(msg, items(msg), _buildItemList(val, 0), i)

\* setItem(i, val, typehint)
setItem(msg, i, val, typehint) ==
    SetInto(msg, items(msg), DecOk(<<Item(typehint, val)>>), i)

\* __delitem__(i) for an index i that is not a slice
DelFrom(msg, own, i) ==
    IF own.st # "ok" THEN Raise(msg, own.err)
    ELSE IF ~InRange(own.val, i) THEN Raise(msg, "IndexError")
    ELSE Call(_reencode(msg, ListDel(own.val, i)), NoneV)
__delitem__(msg, i) == DelFrom(msg, items(msg), i)

\* popitem(i) and pop(i): the item is taken out, the rest re-encoded, and
\* the item, or its value, returned
PopFrom(msg, own, i) ==
    IF own.st # "ok" THEN Raise(msg, own.err)
    ELSE IF ~InRange(own.val, i) THEN Raise(msg, "IndexError")
    ELSE Call(_reencode(msg, ListDel(own.val, i)), own.val[Pos(own.val, i)])
popitem(msg, i) == PopFrom(msg, items(msg), i)
pop(msg, i) == [popitem(msg, i) EXCEPT !.ret = IF popitem(msg, i).err = "" THEN @.v ELSE @]

\* reverse()
Reversed(msg, own) ==
    IF own.st # "ok" THEN Raise(msg, own.err)
    ELSE Call(_reencode(msg, ListReverse(own.val)), NoneV)
reverse(msg) == Reversed(msg, items(msg))

\* v == val, for the values drawn: an int equals the float of its value
PyEq(v, val) ==
    IF v.k = "int" /\ val.k = "float" THEN IntToFloat(v) = val
    ELSE IF v.k = "float" /\ val.k = "int" THEN v = IntToFloat(val)
    ELSE IF v.k = "float" /\ v.c = "zero" THEN val.k = "float" /\ val.c = "zero"
    ELSE IF v.k = "float" /\ v.c = "nan" THEN FALSE
    ELSE v = val

\* the index at which the loop of remove() breaks, 0 when it does not
FirstEqual(l, val) ==
    IF \E j \in 1..Len(l) : PyEq(l[j].v, val)
    THEN CHOOSE j \in 1..Len(l) : PyEq(l[j].v, val) /\ \A h \in 1..(j - 1) : ~PyEq(l[h].v, val)
    ELSE 0

\* remove(val): the else of the loop formats its message with str(m), and
\* no m is defined in the method or the module, so that what is raised
\* there is a NameError
RemoveFrom(msg, own, val) ==
    IF own.st # "ok" THEN Raise(msg, own.err)
    ELSE IF FirstEqual(own.val, val) = 0 THEN Raise(msg, "NameError")
    ELSE Call(_reencode(msg, ListDel(own.val, FirstEqual(own.val, val) - 1)), NoneV)
remove(msg, val) == RemoveFrom(msg, items(msg), val)

\* the elements appended to a bundle: messages, bundles of messages, and
\* values that are not messages
MaxElements == 2
ArgLists == { <<>>, <<StrV(pig), IntV(-2)>> }
Messages == { ObjV("OSCMessage", OSCMessage(a, ListV(vs)), NoneV) :
                a \in Addresses, vs \in ArgLists }
InnerArgLists == { <<>>, <<<<IntV(6)>>>>, <<<<IntV(6)>>, <<StrV(pig), IntV(-2)>>>> }
Bundles ==
    { ObjV("OSCBundle",
           OSCBundle(<<>>, t, [i \in 1..Len(ls) |->
                                 ObjV("OSCMessage", OSCMessage(<<47, 97, 98>>, ListV(ls[i])), NoneV)]),
           t) :
        t \in {IntV(0), IntV(6)}, ls \in InnerArgLists }
BundleArgs == Messages \cup Bundles \cup {IntV(6), ListV(<<StrV(pig), IntV(6)>>), NoneV}
BundleTimes == { IntV(0), FloatV(0, 2, <<1, 0, 1>>), FloatInf(0) }

\* the operands of m + v: m after up to MaxCalls append calls, v a list of
\* values or an OSCMessage
OperandCalls ==
    { <<IntV(6), 0>>, <<StrV(pig), 0>>, <<Pi314, 0>>, <<StrV(<<97, 0, 98, 99, 100>>), 0>>,
      <<BytesV(<<1, 2, 3, 4, 5>>), 98>>, <<IntV(6), 98>>, <<IntV(6), 116>> }
RECURSIVE AppendCalls(_, _)
AppendCalls(msg, cs) ==
    IF Len(cs) = 0 THEN msg
    ELSE AppendCalls(OSCMessage_append(msg, cs[1][1], cs[1][2]).msg, Tail(cs))
OperandHistories == SeqsUpTo(OperandCalls, MaxCalls)
Addends ==
    { ListV(<<>>), ListV(<<IntV(6)>>), ListV(<<StrV(pig), IntV(-2)>>), ListV(<<IntV(6), NoneV>>),
      ListV(<<Pi314>>),
      ObjV("OSCMessage", OSCMessage(<<47, 112, 105, 110, 103>>, ListV(<<StrV(pig), IntV(6)>>)), NoneV),
      ObjV("OSCMessage", clear(<<47, 97, 98>>), NoneV),
      ObjV("OSCMessage", AppendCalls(clear(<<47, 97, 98>>), <<<<IntV(6), 98>>>>), NoneV) }

\* the arguments of the list operations: values that can be encoded and
\* values that cannot (an int beyond 32 bits, None), indices on both sides
\* of the ends of the list, and the lists and tuples given to extend
MaxArgs == 3
Two40 == BigV(0, <<1>> \o Rep(0, 40))
ListValues == { IntV(6), StrV(pig), StrV(<<>>) }
BadValues == { Two40, NoneV }
Six == FloatV(0, 2, <<1>>)
Collections ==
    { ListV(<<>>), ListV(<<IntV(6), StrV(pig)>>), ListV(<<Six>>),
      TupleV(<<IntV(6), StrV(pig)>>), TupleV(<<IntV(6)>>),
      ListV(<<IntV(6), Two40>>) }
Indices == { -1, 0, 1, MaxArgs }
\* insert(i, v) and insert(i, 6, 'f'); setItem(i, 6, 'f') and setItem(i, 2**40)
InsertCalls ==
    (Indices \X (ListValues \cup {Two40}) \X {0}) \cup (Indices \X {IntV(6)} \X {102})
SetItemCalls == Indices \X {<<IntV(6), 102>>, <<Two40, 0>>}
\* the number of values a call offers to the message
Offered(v) == IF v.k \in {"list", "tuple"} THEN Len(v.l) ELSE 1

\* time tags as received: the words high and low and what follows them
HighWords == { <<0, 0, 0, 0>>, <<0, 0, 0, 1>>, <<131, 170, 126, 128>>, <<131, 170, 126, 134>>,
               <<131, 170, 126, 127>>, <<255, 255, 255, 255>> }
LowWords == { <<0, 0, 0, 0>>, <<0, 0, 0, 1>>, <<0, 0, 0, 2>>, <<128, 0, 0, 0>>,
              <<255, 255, 255, 255>> }
TimeTagBuffers ==
    { h \o l \o r : h \in HighWords, l \in LowWords, r \in {<<>>, <<112, 105, 103, 0>>} }

\* the times given to OSCTimeTag: 0 (the default of OSCBundle), 0.0, 6,
\* 0.5, 6.5, -3, -0.0, nan, inf and an int too large for the seconds word
Times ==
    { IntV(0), FloatZero(0), IntV(6), FloatV(0, -1, <<>>), FloatV(0, 2, <<1, 0, 1>>),
      IntV(-3), FloatZero(1), FloatNaN, FloatInf(0), IntV(2147483647) }

\* what follows a blob in a buffer
Rests == { <<>>, <<0, 0, 0, 6>>, <<112, 105, 103, 0>> }

Inputs ==
    { StrV(s) : s \in Texts } \cup { BytesV(b) : b \in Buffers \cup TimeTagBuffers }
        \cup Times

(***************************************************************************)
(* State.  address, typetags, message: one OSCMessage, or one OSCBundle    *)
(* with its timetag (None for an OSCMessage); calls: its caller's          *)
(* record of the calls made, each with the exception it raised.            *)
(* input, op, result: a value handed to one function of the codec, the     *)
(* function applied and what it returned or raised.                        *)
(* data, sock: the field data of one Receive and the datagrams that wait   *)
(* in its socket.                                                          *)
(***************************************************************************)
VARIABLES address, typetags, message, timetag, calls, input, op, result, data, sock

vars == <<address, typetags, message, timetag, calls, input, op, result, data, sock>>
receiver == <<data, sock>>
builder == <<address, typetags, message, timetag, calls>>
codec == <<input, op, result>>

self == Msg(address, typetags, message)

InitBuilder ==
    /\ address \in Addresses
    /\ typetags = <<44>>
    /\ message = <<>>
    /\ timetag = NoneV
    /\ calls = <<>>
    /\ data = NoneV /\ sock = <<>>

Init ==
    /\ InitBuilder
    /\ input = NoneV /\ op = "none" /\ result = <<>>

\* msg.append(argument, typehint)
DoAppend(argument, typehint) ==
    /\ Len(calls) < MaxCalls
    /\ LET o == OSCMessage_append(self, argument, typehint)
       IN  /\ address' = o.msg.address
           /\ typetags' = o.msg.typetags
           /\ message' = o.msg.message
           /\ calls' = Append(calls, [arg |-> argument, hint |-> typehint, err |-> o.err])
    /\ UNCHANGED <<timetag, codec, receiver>>

AppendStep == \E c \in Calls : DoAppend(c[1], c[2])

Next == AppendStep

Spec == Init /\ [][Next]_vars

(***************************************************************************)
(* An OSCBundle and the elements appended to it.                           *)
(***************************************************************************)
InitBundle ==
    /\ address \in Addresses
    /\ typetags = <<44>>
    /\ message = <<>>
    /\ timetag \in BundleTimes
    /\ calls = <<>>
    /\ input = NoneV /\ op = "none" /\ result = <<>>
    /\ data = NoneV /\ sock = <<>>

\* bundle.append(argument)
DoBundleAppend(argument) ==
    /\ Len(calls) < MaxElements
    /\ LET o == OSCBundle_append(self, argument, 0)
       IN  /\ address' = o.msg.address
           /\ typetags' = o.msg.typetags
           /\ message' = o.msg.message
           /\ calls' = Append(calls, [arg |-> argument, hint |-> 0, err |-> o.err])
    /\ UNCHANGED <<timetag, codec, receiver>>

BundleAppendStep == \E a \in BundleArgs : DoBundleAppend(a)

NextBundle == BundleAppendStep

SpecBundle == InitBundle /\ [][NextBundle]_vars

(***************************************************************************)
(* An object that is an OSCMessage (timetag is None) or an OSCBundle, and  *)
(* the append calls made on it, each by the method of its class.           *)
(***************************************************************************)
InitBuild == Init \/ InitBundle

MessageAppendStep == timetag = NoneV /\ AppendStep
ElementAppendStep == timetag # NoneV /\ BundleAppendStep

NextBuild == MessageAppendStep \/ ElementAppendStep

SpecBuild == InitBuild /\ [][NextBuild]_vars

\* self.getBinary(), by the class of self
Binary == IF timetag = NoneV THEN getBinary(self) ELSE OSCBundle_getBinary(self, timetag)

(***************************************************************************)
(* m + v: self is m, after the append calls in calls, input is v, and      *)
(* result is the object returned (its fields in out.msg; same tells that   *)
(* it is the object self) or the exception raised (out.err).               *)
(***************************************************************************)
\* the record of the calls cs made on msg
RECURSIVE History(_, _)
History(msg, cs) ==
    IF Len(cs) = 0 THEN <<>>
    ELSE <<[arg |-> cs[1][1], hint |-> cs[1][2],
            err |-> OSCMessage_append(msg, cs[1][1], cs[1][2]).err]>>
            \o History(OSCMessage_append(msg, cs[1][1], cs[1][2]).msg, Tail(cs))

InitAdd ==
    /\ \E a \in Addresses, cs \in OperandHistories :
          /\ address = a
          /\ typetags = AppendCalls(clear(a), cs).typetags
          /\ message = AppendCalls(clear(a), cs).message
          /\ calls = History(clear(a), cs)
    /\ timetag = NoneV
    /\ input = NoneV /\ op = "none" /\ result = <<>>
    /\ data = NoneV /\ sock = <<>>

\* the fields of self after a call that left fields in the object obj
Held(same, fields) ==
    /\ address' = IF same THEN fields.address ELSE address
    /\ typetags' = IF same THEN fields.typetags ELSE typetags
    /\ message' = IF same THEN fields.message ELSE message

\* sum = self + v
DoAdd(v) ==
    /\ op = "none"
    /\ op' = "__add__" /\ input' = v
    /\ result' = __add__(self, v)
    /\ Held(__add__(self, v).same, __add__(self, v).out.msg)
    /\ UNCHANGED <<timetag, calls, receiver>>

\* sum.append(argument), after sum = self + v returned
DoSumAppend(argument) ==
    /\ op = "__add__" /\ result.out.err = ""
    /\ op' = "__add__;append"
    /\ result' = [result EXCEPT !.out = OSCMessage_append(result.out.msg, argument, 0)]
    /\ Held(result.same, OSCMessage_append(result.out.msg, argument, 0).msg)
    /\ UNCHANGED <<timetag, calls, input, receiver>>

AddStep == \E v \in Addends : DoAdd(v)
SumAppendStep == \E a \in {IntV(6), StrV(pig), NoneV} : DoSumAppend(a)

NextAdd == AddStep \/ SumAppendStep

SpecAdd == InitAdd /\ [][NextAdd]_vars

(***************************************************************************)
(* An OSCMessage used as a list.  op is the method called last, input its  *)
(* arguments (index i, value v, typehint hint; those the method does not   *)
(* take are 0 and None) and result the exception it raised and the value   *)
(* it returned, until the caller goes on to its next call.  A call that    *)
(* would make the message longer than MaxArgs arguments is not made.       *)
(***************************************************************************)
Args(i, v, hint) == [i |-> i, v |-> v, hint |-> hint]

InitList ==
    /\ InitBuilder
    /\ input = Args(0, NoneV, 0) /\ op = "none" /\ result = [err |-> "", ret |-> NoneV]

ListCall(name, args, r) ==
    /\ op = "none"
    /\ len(self) + Offered(args.v) <= MaxArgs \/ name \notin {"append", "insert", "extend", "__iadd__"}
    /\ op' = name /\ input' = args
    /\ result' = [err |-> r.err, ret |-> r.ret]
    /\ address' = r.msg.address
    /\ typetags' = r.msg.typetags
    /\ message' = r.msg.message
    /\ UNCHANGED <<timetag, calls, receiver>>

DoListAppend(v)      == ListCall("append", Args(0, v, 0), Call(OSCMessage_append(self, v, 0), NoneV))
DoInsert(i, v, hint) == ListCall("insert", Args(i, v, hint), insert(self, i, v, hint))
DoSetitem(i, v)      == ListCall("__setitem__", Args(i, v, 0), __setitem__(self, i, v))
DoSetItem(i, v, hint) == ListCall("setItem", Args(i, v, hint), setItem(self, i, v, hint))
DoDelitem(i)         == ListCall("__delitem__", Args(i, NoneV, 0), __delitem__(self, i))
DoPop(i)             == ListCall("pop", Args(i, NoneV, 0), pop(self, i))
DoReverse            == ListCall("reverse", Args(0, NoneV, 0), reverse(self))
DoExtend(vs)         == ListCall("extend", Args(0, vs, 0), Call(extend(self, vs), NoneV))
DoIAdd(vs)           == ListCall("__iadd__", Args(0, vs, 0), Call(__iadd__(self, vs), NoneV))
DoRemove(v)          == ListCall("remove", Args(0, v, 0), remove(self, v))

ListAppendStep == \E v \in ListValues \cup BadValues \cup {ListV(<<IntV(6), Two40>>)} : DoListAppend(v)
InsertStep     == \E c \in InsertCalls : DoInsert(c[1], c[2], c[3])
SetitemStep    == \E i \in Indices, v \in ListValues \cup {Two40} : DoSetitem(i, v)
SetItemStep    == \E c \in SetItemCalls : DoSetItem(c[1], c[2][1], c[2][2])
DelitemStep    == \E i \in Indices : DoDelitem(i)
PopStep        == \E i \in Indices : DoPop(i)
ReverseStep    == DoReverse
ExtendStep     == \E vs \in Collections : DoExtend(vs)
IAddStep       == \E vs \in Collections : DoIAdd(vs)
RemoveStep     == \E v \in ListValues \cup {IntV(-2)} : DoRemove(v)

\* the caller is done with what the call returned
Continue ==
    /\ op # "none"
    /\ input' = Args(0, NoneV, 0) /\ op' = "none" /\ result' = [err |-> "", ret |-> NoneV]
    /\ UNCHANGED <<builder, receiver>>

NextList ==
    \/ ListAppendStep
    \/ InsertStep
    \/ SetitemStep
    \/ SetItemStep
    \/ DelitemStep
    \/ PopStep
    \/ ReverseStep
    \/ ExtendStep
    \/ IAddStep
    \/ RemoveStep
    \/ Continue

SpecList == InitList /\ [][NextList]_vars

(***************************************************************************)
(* send_receive.py: one Receive whose socket was bound.  Datagrams arrive  *)
(* in the socket, which holds up to MaxQueued of them, and each listen()   *)
(* takes the first one, if there is one.  op is "listen" when the call     *)
(* returned, with the datagram it took in input (None when recv timed      *)
(* out) and the value it returned in result; op is "hang" when decodeOSC   *)
(* does not return, and the Receive then makes no further call.            *)
(***************************************************************************)
buffer_size == 1024
MaxQueued == 2

\* '/ab' with the int 6, '/ping' with the string 'pig', an empty datagram,
\* a message without type tags, and a bundle with one byte after its time
Datagrams ==
    { <<47, 97, 98, 0, 44, 105, 0, 0, 0, 0, 0, 6>>,
      <<47, 112, 105, 110, 103, 0, 0, 0, 44, 115, 0, 0, 112, 105, 103, 0>>,
      <<>>,
      <<47, 97, 98, 0, 112, 105, 103, 0>>,
      BundleField \o <<0, 0, 0, 0, 0, 0, 0, 1>> \o <<1>> }

InitListen ==
    /\ address = <<>> /\ typetags = <<44>> /\ message = <<>> /\ calls = <<>>
    /\ timetag = NoneV
    /\ input = NoneV /\ op = "none" /\ result = NoneV
    /\ data = NoneV /\ sock = <<>>

\* a datagram reaches the socket
Arrive(d) ==
    /\ Len(sock) < MaxQueued
    /\ sock' = Append(sock, d)
    /\ UNCHANGED <<builder, codec, data>>

\* convert_data(raw_data), d being decodeOSC(raw_data): self.data is
\* assigned when decodeOSC returns and kept when it raises
convert_data(old, d) == IF d.st = "ok" THEN ListV(d.val) ELSE old

\* listen() when recv returned raw_data
Received(raw_data, d) ==
    /\ input' = BytesV(raw_data)
    /\ IF d.st = "hang"
       THEN op' = "hang" /\ UNCHANGED <<data, result>>
       ELSE /\ op' = "listen"
            /\ data' = convert_data(data, d)
            /\ result' = convert_data(data, d)

\* listen(): recv raises when no datagram waits, and self.data is returned
\* whatever happened
listen ==
    /\ op # "hang"
    /\ IF Len(sock) = 0
       THEN op' = "listen" /\ input' = NoneV /\ result' = data /\ UNCHANGED <<data, sock>>
       ELSE /\ sock' = Tail(sock)
            /\ Received(Slice(Head(sock), 0, buffer_size),
                        decodeOSC(Slice(Head(sock), 0, buffer_size)))
    /\ UNCHANGED builder

ArriveStep == \E d \in Datagrams : Arrive(d)

NextListen == ArriveStep \/ listen

SpecListen == InitListen /\ [][NextListen]_vars

(***************************************************************************)
(* The codec functions applied to one input each.                          *)
(***************************************************************************)
InitCodec ==
    /\ address = <<>> /\ typetags = <<44>> /\ message = <<>> /\ calls = <<>>
    /\ timetag = NoneV
    /\ input \in Inputs /\ op = "none" /\ result = <<>>
    /\ data = NoneV /\ sock = <<>>

Apply(name, kind, r) ==
    /\ op = "none" /\ input.k = kind
    /\ op' = name /\ result' = r
    /\ UNCHANGED <<input, builder, receiver>>

ApplyOSCString   == Apply("OSCString", "str", OSCString(input))
ApplyReadString  == Apply("_readString", "bytes", _readString(input.m))
ApplyReadBlob    == Apply("_readBlob", "bytes", _readBlob(input.m))
ApplyFromBinary  == Apply("BlobArgument.fromBinary", "bytes", BlobArgument_fromBinary(input.m))
ApplyReadInt     == Apply("_readInt", "bytes", _readInt(input.m))
ApplyReadFloat   == Apply("_readFloat", "bytes", _readFloat(input.m))
ApplyReadDouble  == Apply("_readDouble", "bytes", _readDouble(input.m))
ApplyDecodeOSC   == Apply("decodeOSC", "bytes", decodeOSC(input.m))
ApplyOSCBlob     == Apply("OSCBlob", "bytes", OSCBlob(input))
ApplyReadTimeTag == Apply("_readTimeTag", "bytes", _readTimeTag(input.m))
ApplyToBinary ==
    \E python \in Interpreters :
        Apply("BlobArgument.toBinary", "str", BlobArgument_toBinary(input, python))

\* a blob written by OSCBlob and read back by _readBlob with rest after it
BlobRoundTrip(rest) ==
    LET enc == OSCBlob(input)
    IN  [enc |-> enc, rest |-> rest,
         dec |-> IF enc.ok THEN _readBlob(enc.b \o rest) ELSE RdErr(enc.err)]
ApplyBlobRoundTrip ==
    \E rest \in Rests : Apply("OSCBlob;_readBlob", "bytes", BlobRoundTrip(rest))

\* a time written by OSCTimeTag and read back by _readTimeTag
TimeTagRoundTrip ==
    LET enc == OSCTimeTag(input)
    IN  [enc |-> enc, dec |-> IF enc.ok THEN _readTimeTag(enc.b) ELSE RdErr(enc.err)]
ApplyIntTimeTag   == Apply("OSCTimeTag;_readTimeTag", "int", TimeTagRoundTrip)
ApplyFloatTimeTag == Apply("OSCTimeTag;_readTimeTag", "float", TimeTagRoundTrip)

NextCodec ==
    \/ ApplyOSCString
    \/ ApplyReadString
    \/ ApplyReadBlob
    \/ ApplyFromBinary
    \/ ApplyReadInt
    \/ ApplyReadFloat
    \/ ApplyReadDouble
    \/ ApplyDecodeOSC
    \/ ApplyOSCBlob
    \/ ApplyReadTimeTag
    \/ ApplyBlobRoundTrip
    \/ ApplyIntTimeTag
    \/ ApplyFloatTimeTag
    \/ ApplyToBinary

SpecCodec == InitCodec /\ [][NextCodec]_vars

(***************************************************************************)
(* Properties.                                                             *)
(***************************************************************************)
AllReturned == \A i \in 1..Len(calls) : calls[i].err = ""
NoNul(s) == \A i \in 1..Len(s) : s[i] # 0
HasPrefix(b, p) == Len(b) >= Len(p) /\ SubSeq(b, 1, Len(p)) = p
IsBundleBuffer(b) == HasPrefix(b, BundleField)

IsInt32(v)     == v.k = "int" /\ v.c = ""
IsLatin1Str(v) == v.k = "str" /\ \A i \in 1..Len(v.m) : v.m[i] \in 1..255
AddressOk      == HasPrefix(address, <<47>>) /\ \A i \in 1..Len(address) : address[i] \in 1..255
InferredIntsAndStrings ==
    \A i \in 1..Len(calls) :
        calls[i].hint = 0 /\ (IsInt32(calls[i].arg) \/ IsLatin1Str(calls[i].arg))
InferredTag(v) == IF v.k = "int" THEN 105 ELSE 115

\* C1: a message with an address that starts with '/' and holds no NUL, to
\* which 32-bit integers and NUL-free Latin-1 strings were appended without
\* typehint, decodes from its binary to [address, ',' + tags, v1, ..., vn]
\* with the values appended, in order, and the tags 'i' and 's' for them.
C1_RoundTrip ==
    AddressOk /\ InferredIntsAndStrings =>
        LET g == getBinary(self)
        IN  /\ g.ok
            /\ decodeOSC(g.b) =
                 DecOk(<<StrV(address),
                         StrV(<<44>> \o [i \in 1..Len(calls) |-> InferredTag(calls[i].arg)])>>
                       \o [i \in 1..Len(calls) |-> calls[i].arg])

C1_Witness ==
    /\ AddressOk /\ InferredIntsAndStrings
    /\ Len(calls) = 2 /\ calls[1].arg = StrV(pig) /\ calls[2].arg = IntV(6)
    /\ decodeOSC(getBinary(self).b) =
         DecOk(<<StrV(address), StrV(<<44, 115, 105>>), StrV(pig), IntV(6)>>)

\* C2: OSCString of a Latin-1 string s has ceil((len(s)+1)/4)*4 bytes: a
\* multiple of 4, at least len(s)+1; they are the bytes of s followed by 1
\* to 4 NUL bytes.
C2_StringPadding ==
    op = "OSCString" /\ IsLatin1(input.m) =>
        /\ result.ok
        /\ LET n == Len(input.m)
               b == result.b
           IN  /\ Len(b) = 4 * ((n + 4) \div 4)
               /\ Len(b) % 4 = 0
               /\ Len(b) - n \in 1..4
               /\ SubSeq(b, 1, n) = input.m
               /\ \A i \in (n + 1)..Len(b) : b[i] = 0

C2_Witness ==
    /\ op = "OSCString" /\ input.m = <<97, 233, 97>>
    /\ result.b = <<97, 233, 97, 0>>

\* C3: after append calls that all returned (no typehint, or 'i', 'f', 'd',
\* 'b', 't'), decodeOSC of the binary recovers as many values as there are
\* type tags after the comma, and the i-th value is of the kind of the i-th
\* tag.
TagKind(t) ==
    CASE t = 105 -> "int"
      [] t \in {102, 100, 116} -> "float"
      [] t = 115 -> "str"
      [] t = 98 -> "bytes"
      [] OTHER -> "none"
C3_TagsMatchValues ==
    AllReturned /\ (\A i \in 1..Len(calls) : calls[i].hint \in {0, 105, 102, 100, 98, 116}) =>
        LET g == getBinary(self)
            d == decodeOSC(g.b)
        IN  /\ d.st = "ok"
            /\ Len(d.val) - 2 = len(self)
            /\ \A i \in 1..len(self) : d.val[i + 2].k = TagKind(typetags[i + 1])

\* C4: _readInt, _readFloat and _readDouble, and decodeOSC for a tag 'i',
\* 'f' or 'd', fail with an error when fewer than 4, 4 or 8 bytes remain;
\* no value is substituted.
ShortScalarMessage(b) ==
    \E a \in AddrFields \ {<<>>} :
        \/ HasPrefix(b, a \o <<44, 105, 0, 0>>) /\ Len(b) - Len(a) - 4 < 4
        \/ HasPrefix(b, a \o <<44, 102, 0, 0>>) /\ Len(b) - Len(a) - 4 < 4
        \/ HasPrefix(b, a \o <<44, 100, 0, 0>>) /\ Len(b) - Len(a) - 4 < 8
C4_ScalarTruncationFails ==
    /\ op = "_readInt" /\ Len(input.m) < 4 => ~result.ok
    /\ op = "_readFloat" /\ Len(input.m) < 4 => ~result.ok
    /\ op = "_readDouble" /\ Len(input.m) < 8 => ~result.ok
    /\ op = "decodeOSC" /\ ShortScalarMessage(input.m) => result.st = "raise"

\* C5: _readString fails with an error on a buffer that holds no NUL byte.
C5_NoTerminatorFails ==
    op = "_readString" /\ NoNul(input.m) => ~result.ok

\* C6: _readBlob and BlobArgument.fromBinary fail with an error when the
\* length prefix declares more bytes than follow it.
DeclaresTooMuch(b) == Len(b) >= 4 /\ UnpackInt(SubSeq(b, 1, 4)) > Len(b) - 4
C6_BlobTruncationFails ==
    op \in {"_readBlob", "BlobArgument.fromBinary"} /\ DeclaresTooMuch(input.m) =>
        ~result.ok

\* C7: decodeOSC of a bundle fails with an error when the declared length
\* of its first element exceeds the bytes that follow the length.
FirstElementTooLong(b) ==
    /\ IsBundleBuffer(b) /\ Len(b) >= 20
    /\ UnpackInt(SubSeq(b, 17, 20)) > Len(b) - 20
C7_ElementTruncationFails ==
    op = "decodeOSC" /\ FirstElementTooLong(input.m) => result.st = "raise"

\* C8: decodeOSC raises, and returns nothing, when the first string of the
\* buffer is an address (it does not start with ',' and is not '#bundle')
\* and the second string is not empty and does not start with ','.
MissingComma(b) ==
    LET first  == _readString(b).v.m
        second == _readString(_readString(b).rest).v.m
    IN  /\ ~StartsWithComma(first) /\ first # Bundle
        /\ Len(second) > 0 /\ ~StartsWithComma(second)
C8_MissingCommaFails ==
    op = "decodeOSC" /\ MissingComma(input.m) =>
        result.st = "raise" /\ result.val = <<>>

C8_Witness ==
    /\ op = "decodeOSC"
    /\ input.m = <<47, 97, 98, 0>> \o <<112, 105, 103, 0>> \o <<0, 0, 0, 4>>
    /\ MissingComma(input.m)
    /\ result.st = "raise"

\* C9: decodeOSC raises, and returns nothing, when it decodes the arguments
\* of a message whose type-tag string holds a character other than i, f, s,
\* b, d, t; the error is the failed lookup of that tag (KeyError) unless a
\* 'b' or 't' before it already failed.
TypeTagsOf(b) ==
    LET first == _readString(b)
    IN  IF StartsWithComma(first.v.m) THEN first.v.m ELSE _readString(first.rest).v.m
FirstUnknown(tt) ==
    CHOOSE i \in 2..Len(tt) :
        tt[i] \notin {105, 102, 115, 98, 100, 116}
            /\ \A j \in 2..(i - 1) : tt[j] \in {105, 102, 115, 98, 100, 116}
UnknownTag(b) ==
    /\ ~IsBundleBuffer(b)
    /\ Len(_readString(b).rest) > 0
    /\ StartsWithComma(TypeTagsOf(b))
    /\ \E i \in 2..Len(TypeTagsOf(b)) : TypeTagsOf(b)[i] \notin {105, 102, 115, 98, 100, 116}
C10_FullResultOrError ==
    op = "decodeOSC" /\ ~IsBundleBuffer(input.m) =>
        \/ result.st = "raise"
        \/ /\ result.st = "ok"
           /\ Len(result.val) >= 2
           /\ result.val[1].k = "str" /\ result.val[2].k = "str"
           /\ Len(result.val) - 2 = Len(result.val[2].m) - 1
\* C11: OSCBlob(b) has 4 + ceil(len(b)/4)*4 bytes for every byte sequence
\* b: a 4-byte prefix, then b, then 0 to 3 NUL bytes.
C11_BlobLength ==
    op = "OSCBlob" =>
        LET n   == Len(input.m)
            pad == Len(result.b) - 4 - n
        IN  /\ result.ok
            /\ Len(result.b) = 4 + ((n + 3) \div 4) * 4
            /\ pad \in 0..3
            /\ SubSeq(result.b, 5, 4 + n) = input.m
            /\ \A i \in (5 + n)..Len(result.b) : result.b[i] = 0

\* a blob of 5 bytes, padded with 3 NUL bytes, has been encoded
C11_Witness ==
    /\ op = "OSCBlob" /\ Len(input.m) = 5
    /\ result.ok /\ Len(result.b) = 12

\* C12: the prefix written by OSCBlob(b) is the unpadded count len(b), and
\* _readBlob(OSCBlob(b) + rest) returns exactly (b, rest).
C12_BlobRoundTrip ==
    op = "OSCBlob;_readBlob" =>
        /\ result.enc.ok
        /\ SubSeq(result.enc.b, 1, 4) = PackInt(Len(input.m))
        /\ result.dec = RdOk(BytesV(input.m), result.rest)

\* C13: OSCTimeTag of the time 0 is 00 00 00 00 00 00 00 01, and
\* _readTimeTag of those bytes is 0.0, the immediate value, again.
C13_ImmediateSentinel ==
    (op = "OSCTimeTag;_readTimeTag" /\ input \in {IntV(0), FloatZero(0)}) =>
        /\ result.enc = EncOk(<<0, 0, 0, 0, 0, 0, 0, 1>>)
        /\ result.dec = RdOk(FloatZero(0), <<>>)

\* the default time 0 of OSCBundle has been encoded and read back
C13_Witness ==
    /\ op = "OSCTimeTag;_readTimeTag" /\ input = IntV(0)
    /\ result.enc.ok /\ result.dec.ok

\* C14: _readTimeTag returns the immediate value 0.0 for the words (0, 1)
\* and the timestamp NTP_epoch + high + low/2^32 for every other pair of
\* words, the pair (0, 0) included.
C14_TimeTagDecode ==
    (op = "_readTimeTag" /\ Len(input.m) >= 8) =>
        LET high == SubSeq(input.m, 1, 4)
            low  == SubSeq(input.m, 5, 8)
        IN  /\ result.ok
            /\ result.v = IF high = <<0, 0, 0, 0>> /\ low = <<0, 0, 0, 1>>
                           THEN FloatZero(0)
                           ELSE NtpToFloat(high, low)

\* the elements of a bundle buffer whose time tag and length words are
\* whole, as the slices the length words cut
RECURSIVE ElementSlices(_)
ElementSlices(rest) ==
    IF Len(rest) < 4 THEN <<>>
    ELSE LET length == UnpackInt(SubSeq(rest, 1, 4))
         IN  IF length <= 0 \/ length > Len(rest) - 4 THEN <<>>
             ELSE <<SubSeq(rest, 5, 4 + length)>>
                     \o ElementSlices(SubSeq(rest, 5 + length, Len(rest)))
WellFramed(b) ==
    /\ IsBundleBuffer(b) /\ Len(b) >= 16
    /\ LET els == ElementSlices(SubSeq(b, 17, Len(b)))
       IN  Len(b) = 16 + 4 * Len(els) + Len(Flatten(els))

\* C17: in a bundle, an element slice that begins with '/' is decoded as a
\* message and one that begins with '#' as a bundle; a slice of non-zero
\* length that begins with neither makes decodeOSC fail with an error.
C17_ElementKind ==
    (op = "decodeOSC" /\ WellFramed(input.m)) =>
        LET els == ElementSlices(SubSeq(input.m, 17, Len(input.m)))
        IN  /\ (\E i \in 1..Len(els) : els[i][1] \notin {47, 35}) => result.st = "raise"
            /\ result.st = "ok" =>
                 \A i \in 1..Len(els) :
                    /\ els[i][1] = 35 => result.val[i + 2].l[1] = StrV(Bundle)
                    /\ els[i][1] = 47 => result.val[i + 2].l[1].m[1] = 47

\* the elements of the bundle: the arguments of the append calls that
\* returned
Returned(c) == c.err = ""
Appended == SelectSeq(calls, Returned)
OnlyObjects == \A i \in 1..Len(calls) : calls[i].arg.k \in {"OSCMessage", "OSCBundle"}

\* what the caller put into a message or a bundle, as decodeOSC lists it;
\* a time tag that is not positive is read back as 0.0
ExpectedTime(t) == IF t.k = "int" THEN IntToFloat(IF t.n < 0 THEN IntV(0) ELSE t) ELSE t
ExpectedMessage(a, vs) ==
    <<StrV(a), StrV(<<44>> \o [i \in 1..Len(vs) |-> InferredTag(vs[i])])>> \o vs
ExpectedBundle(t, es) ==
    <<StrV(Bundle), ExpectedTime(t)>> \o [i \in 1..Len(es) |-> ListV(es[i])]
Known ==
    LET msg(a, vs) == [obj |-> ObjV("OSCMessage", OSCMessage(a, ListV(vs)), NoneV),
                       dec |-> ExpectedMessage(a, vs)]
    IN  { msg(a, vs) : a \in Addresses, vs \in ArgLists }
          \cup { [obj |-> ObjV("OSCBundle",
                               OSCBundle(<<>>, t, [i \in 1..Len(ls) |->
                                                      msg(<<47, 97, 98>>, ls[i]).obj]), t),
                  dec |-> ExpectedBundle(t, [i \in 1..Len(ls) |->
                                                msg(<<47, 97, 98>>, ls[i]).dec])] :
                  t \in {IntV(0), IntV(6)}, ls \in InnerArgLists }
Expected(o) == (CHOOSE k \in Known : k.obj = o).dec

\* C15: a bundle to which messages and nested bundles of messages were
\* appended decodes to ['#bundle', timetag, e1, e2, ...] with one element
\* per appended object, in append order; a message element is its
\* [address, typetags, values...] and a nested bundle its own
\* ['#bundle', timetag, elements...].
C15_BundleRoundTrip ==
    (timetag.k \in {"int", "float"} /\ OnlyObjects /\ OSCBundle_getBinary(self, timetag).ok) =>
        /\ AllReturned
        /\ decodeOSC(OSCBundle_getBinary(self, timetag).b)
             = DecOk(ExpectedBundle(timetag, [i \in 1..Len(calls) |-> Expected(calls[i].arg)]))

\* a message and then a bundle holding two messages have been appended
C15_Witness ==
    /\ Len(calls) = 2 /\ AllReturned
    /\ calls[1].arg.k = "OSCMessage" /\ Len(calls[1].arg.l[2].m) = 3
    /\ calls[2].arg.k = "OSCBundle" /\ Len(calls[2].arg.l[2].m) = 3
    /\ OSCBundle_getBinary(self, timetag).ok

\* the elements of the bundle, each behind the word of its byte length
RECURSIVE Framing(_, _)
Framing(addr, cs) ==
    IF Len(cs) = 0 THEN <<>>
    ELSE LET binary == ElementBinary(addr, cs[1].arg, cs[1].hint).b
         IN  PackInt(Len(binary)) \o binary \o Framing(addr, Tail(cs))

\* C16: OSCBundle.getBinary() is OSCString('#bundle'), the 8 bytes of the
\* time tag and then, for each appended element in append order, a 32-bit
\* length word and the element's own binary, the word being exactly the
\* byte length of that binary.
C16_BundleLayout ==
    (timetag.k \in {"int", "float"} /\ OSCBundle_getBinary(self, timetag).ok) =>
        LET binary == OSCBundle_getBinary(self, timetag).b
            time   == OSCTimeTag(timetag).b
        IN  /\ Len(time) = 8
            /\ binary = BundleField \o time \o Framing(address, Appended)

\* a message, and then a bundle holding a message, have been appended
C16_Witness ==
    /\ Len(Appended) = 2
    /\ Appended[1].arg.k = "OSCMessage" /\ Appended[2].arg.k = "OSCBundle"
    /\ Len(Appended[2].arg.m) > 0
    /\ OSCBundle_getBinary(self, timetag).ok

\* C18: append without a typehint, on a value that is not a collection,
\* adds the tag 'f' for a float, 'i' for an integer and 's' for a value of
\* any other kind, and it does not fail for a value of another kind.
C18_TypeInference ==
    [][\A c \in Calls :
         (/\ c[2] = 0 /\ c[1].k # "list"
          /\ c[1].k = "str" => IsLatin1(c[1].m)
          /\ DoAppend(c[1], c[2])) =>
            /\ calls'[Len(calls')].err = ""
            /\ typetags' = Append(typetags, CASE c[1].k = "float" -> 102
                                               [] c[1].k = "int" -> 105
                                               [] OTHER -> 115)]_vars

\* C19: append with the typehint 'i', 'f' or 'd' on a value that cannot be
\* converted to that kind succeeds: it adds the tag 's' and the string
\* encoding of the value after the arguments that are there.
C19_HintFallback ==
    [][\A c \in Calls :
         (/\ c[2] \in {105, 102, 100} /\ c[1].k # "list"
          /\ ~(IF c[2] = 105 THEN PyInt(c[1]) ELSE PyFloat(c[1])).ok
          /\ DoAppend(c[1], c[2])) =>
            /\ calls'[Len(calls')].err = ""
            /\ typetags' = Append(typetags, 115)
            /\ Len(message') > Len(message)
            /\ SubSeq(message', 1, Len(message)) = message
            /\ _readString(SubSeq(message', Len(message) + 1, Len(message')))
                 = RdOk(c[1], <<>>)]_vars

\* the arguments of v: the values a list holds, or those an OSCMessage
\* lists
ArgumentsOf(v) == IF v.k = "list" THEN v.l ELSE values(MsgOfObj(v)).val
IntsAndStrings(v) ==
    v.k = "list" => \A i \in 1..Len(v.l) :
                       \/ IsInt32(v.l[i])
                       \/ IsLatin1Str(v.l[i]) /\ NoNul(v.l[i].m)

\* every tag of the message has its argument in the payload, and the
\* payload holds nothing else
RECURSIVE Paired(_, _)
Paired(ts, p) ==
    IF Len(ts) = 0 THEN Len(p) = 0
    ELSE LET size == CASE ts[1] \in {105, 102} -> 4
                       [] ts[1] \in {100, 116} -> 8
                       [] ts[1] = 115 ->
                            IF \E i \in 1..Len(p) : p[i] = 0
                            THEN 4 * ((Find0(p) \div 4) + 1) ELSE -1
                       [] ts[1] = 98 ->
                            IF Len(p) >= 4 /\ UnpackInt(SubSeq(p, 1, 4)) >= 0
                                 /\ UnpackInt(SubSeq(p, 1, 4)) % 4 = 0
                            THEN 4 + UnpackInt(SubSeq(p, 1, 4)) ELSE -1
                       [] OTHER -> -1
         IN  /\ size >= 0 /\ size <= Len(p)
             /\ Paired(Tail(ts), SubSeq(p, size + 1, Len(p)))
WellPaired(msg) == Paired(Tail(msg.typetags), msg.message)

\* the call appended a value of the kind its tag names, a string without
\* NUL
Sound(c) ==
    /\ c.err = ""
    /\ \/ c.hint = 0 /\ (IsInt32(c.arg) \/ c.arg.k = "float")
       \/ c.hint = 0 /\ IsLatin1Str(c.arg) /\ NoNul(c.arg.m)
       \/ c.hint = 98 /\ c.arg.k = "bytes"
       \/ c.hint = 116 /\ c.arg.k \in {"int", "float"}

Addable(m, v) ==
    /\ \A i \in 1..Len(calls) : Sound(calls[i])
    /\ WellPaired(m)
    /\ IntsAndStrings(v)
    /\ (v.k = "OSCMessage" => WellPaired(MsgOfObj(v)))

RefOk(l, ret) == [l |-> l, err |-> "", ret |-> ret]
RefErr(l, e)  == [l |-> l, err |-> e, ret |-> NoneV]
Reference(name, a, l) ==
    CASE name = "append" -> RefOk(Append(l, Item(InferredTag(a.v), a.v)), NoneV)
      [] name = "insert" -> RefOk(ListInsert(l, a.i, Item(InferredTag(a.v), a.v)), NoneV)
      [] name = "__setitem__" ->
            IF InRange(l, a.i) THEN RefOk(ListSet(l, a.i, Item(InferredTag(a.v), a.v)), NoneV)
            ELSE RefErr(l, "IndexError")
      [] name = "__delitem__" ->
            IF InRange(l, a.i) THEN RefOk(ListDel(l, a.i), NoneV) ELSE RefErr(l, "IndexError")
      [] name = "pop" ->
            IF InRange(l, a.i) THEN RefOk(ListDel(l, a.i), l[Pos(l, a.i)].v)
            ELSE RefErr(l, "IndexError")
      [] name = "reverse" -> RefOk(ListReverse(l), NoneV)

TakesValue(name) == name \in {"append", "insert", "__setitem__"}
HoldsIntsAndStrings(msg) == \A j \in 1..Len(tags(msg)) : tags(msg)[j] \in {105, 115}
Agrees(its, res, ref) ==
    /\ its = DecOk(ref.l)
    /\ res.err = ref.err
    /\ res.ret = ref.ret

\* C21: append(v), insert(i, v), msg[i] = v, del msg[i], pop(i) and
\* reverse(), with v a 32-bit integer or a NUL-free Latin-1 string, on a
\* message that holds such values, change the (tag, value) items of the
\* message as the same operation changes a Python list of them, raise
\* when the list raises, and pop returns the value the list returns.
C21_ListLike ==
    [][(/\ op' \in {"append", "insert", "__setitem__", "__delitem__", "pop", "reverse"}
        /\ input'.hint = 0
        /\ TakesValue(op') => (IsInt32(input'.v) \/ IsLatin1Str(input'.v))
        /\ HoldsIntsAndStrings(self)) =>
            Agrees(items(self'), result', Reference(op', input', items(self).val))]_vars

\* a value has been inserted between two others of a message that holds an
\* integer and a string
C21_Witness ==
    /\ op = "insert" /\ input.i = 1 /\ input.hint = 0 /\ result.err = ""
    /\ input.v = StrV(<<>>)
    /\ tags(self) = <<105, 115, 115>>
    /\ values(self) = DecOk(<<IntV(6), StrV(<<>>), StrV(pig)>>)

\* a 32-bit integer, a float or a NUL-free Latin-1 string
Scalar(v) == IsInt32(v) \/ v.k = "float" \/ IsLatin1Str(v)
Scalars(v) == v.k \in {"list", "tuple"} /\ \A j \in 1..Len(v.l) : Scalar(v.l[j])

\* C22: m.extend(vs) and m += vs, for vs a list or a tuple of integers,
\* floats and strings, return, and leave in m the arguments it had followed
\* by every element of vs, in order: len(m) has grown by len(vs).
C22_Extend ==
    [][(op' \in {"extend", "__iadd__"} /\ Scalars(input'.v)) =>
            /\ result'.err = ""
            /\ len(self') = len(self) + Len(input'.v.l)
            /\ values(self') = DecOk(values(self).val \o input'.v.l)]_vars

\* the item that insert(i, val, typehint) is to add: val with the tag of
\* its type, or the float of val with the tag 'f'
Hinted(v, typehint) ==
    IF typehint = 102 THEN Item(102, PyFloat(v).v) ELSE Item(InferredTag(v), v)

\* C23: insert(i, val, typehint), for val a 32-bit integer or a NUL-free
\* Latin-1 string and typehint None or 'f', puts val at index i with the
\* tag the typehint names ('f' for insert(0, 5, 'f')) and moves the
\* arguments from index i on up by one, their tags and values as they
\* were.
C23_InsertHint ==
    [][(/\ op' = "insert"
        /\ IsInt32(input'.v) \/ IsLatin1Str(input'.v)
        /\ input'.hint = 102 => IsInt32(input'.v)) =>
            /\ result'.err = ""
            /\ items(self')
                 = DecOk(ListInsert(items(self).val, input'.i, Hinted(input'.v, input'.hint)))]_vars

\* C24: remove(val) deletes the first argument equal to val and keeps the
\* others in order; when no argument equals val it raises ValueError and
\* leaves address, typetags and payload as they were.
C24_Remove ==
    [][op' = "remove" =>
            IF FirstEqual(items(self).val, input'.v) = 0
            THEN /\ result'.err = "ValueError"
                 /\ address' = address /\ typetags' = typetags /\ message' = message
            ELSE /\ result'.err = ""
                 /\ items(self')
                      = DecOk(ListDel(items(self).val, FirstEqual(items(self).val, input'.v) - 1))]_vars
\* C28: insert, extend, +=, msg[i] = v, setItem and append that raise leave
\* the typetags and the payload of the message as they were before the call.
C28_Atomic ==
    [][(/\ op' \in {"insert", "extend", "__iadd__", "__setitem__", "setItem", "append"}
        /\ result'.err # "") =>
            typetags' = typetags /\ message' = message]_vars

\* what decodeOSC makes of a datagram, None when it raises
Decoded(d) == IF d.st = "ok" THEN ListV(d.val) ELSE NoneV

\* C25: a call of listen() returns the decoded data of the datagram it
\* received, and None when it received none or one that cannot be decoded,
\* whatever the calls before it received.
C25_ListenFresh ==
    [][op' = "listen" =>
            result' = IF input' = NoneV THEN NoneV ELSE Decoded(decodeOSC(input'.m))]_vars
\* C26: decodeOSC terminates on every buffer: it returns a list or raises,
\* and the element loop of a bundle never meets a remainder that an
\* iteration leaves as long as it was.
C26_Terminates ==
    op = "decodeOSC" => result.st \in {"ok", "raise"}

\* C27: after any sequence of append calls on an OSCMessage (type inferred
\* or typehint 'i', 'f', 'd', 's', 'b', 't'), and of appends of messages,
\* bundles and values to an OSCBundle, the length of getBinary() is a
\* multiple of 4 whenever getBinary() returns.
C27_Aligned ==
    Binary.ok => Len(Binary.b) % 4 = 0

\* a blob of 5 bytes and a double were appended to a message
C27_Witness ==
    /\ timetag = NoneV /\ typetags = <<44, 98, 100>>
    /\ calls[1].arg = BytesV(<<1, 2, 3, 4, 5>>)
    /\ Binary.ok /\ Len(Binary.b) = 8 + 4 + 12 + 8

\* a message and a bundle that holds messages were appended to a bundle
C27_BundleWitness ==
    /\ timetag # NoneV /\ Len(Appended) = 2
    /\ Appended[1].arg.k = "OSCMessage" /\ Appended[2].arg.k = "OSCBundle"
    /\ Len(Appended[2].arg.m) > 0
    /\ Binary.ok /\ Len(Binary.b) > 16

\* C29: BlobArgument.toBinary of a payload of sz bytes returns the four
\* bytes of sz and the payload followed by the 0 to 3 NUL bytes that bring
\* it to the next multiple of 4: none when sz is a multiple of 4.
C29_BlobPadding ==
    (op = "BlobArgument.toBinary" /\ IsLatin1(input.m)) =>
        result = EncOk(PackInt(Len(input.m)) \o PackS(Ceil4(Len(input.m)), input.m))

\* the buffer starts with a string that starts with ',' and names only
\* tags that decodeOSC has a reader for
LeadingTypeTags(b) ==
    /\ StartsWithComma(_readString(b).v.m)
    /\ \A j \in 2..Len(_readString(b).v.m) : _readString(b).v.m[j] \in TableTags

\* the result with the empty address, the first string as type tags and
\* the values read for its tags from what follows it
QuirkResult(first) == TagLoop(Tail(first.v.m), first.rest, <<StrV(<<>>), first.v>>)

\* C30: when the first string of the buffer starts with ',', decodeOSC
\* takes it as the type-tag string: the result has the empty string as
\* address, that string as type tags, and one value for each tag, read
\* from the bytes after that string; no other string is read as type tags.
C30_LeadingTypeTags ==
    (op = "decodeOSC" /\ LeadingTypeTags(input.m)) =>
        result = QuirkResult(_readString(input.m))

====
